---- MODULE Spec2Model ----
(***************************************************************************)
(* The DynamicTable widget of kbase-extension/static/kbase/js/widgets/      *)
(* dynamicTable.js as a state machine: the widget's fields, the DOM state   *)
(* it owns (table body, header icons, status line, loading spinner) and the *)
(* promises returned by the caller-supplied updateFunction that have not    *)
(* settled yet.  One action per event handler; a settling promise runs its  *)
(* then/catch/finally chain as one step (the handlers of one chain run in   *)
(* the same drain of the promise library's queue, no DOM event in between). *)
(***************************************************************************)
EXTENDS Integers, Sequences, FiniteSets, TLC

\* ---------------------------------------------------------------- bounds
\* fetches that may be in flight at once
MaxInFlight == 2
\* length of the text in the search box
MaxTextLen == 1
\* the server's total reaches MaxPages full pages and a half
MaxPages == 2
\* times a callback that serves stored rows has them rendered
MaxRenders == 2
\* cells in the notebook
MaxCells == 3

\* ------------------------------------------------------- configuration
\* options.rowsPerPage when the caller does not set it
DefaultRowsPerPage == 10

\* the options the widget is constructed with: rowsPerPage left out, <<>>,
\* or set, <<n>>; decoration left out
OptionChoices ==
    { [rowsPerPage |-> <<>>, decoration |-> <<>>],
      [rowsPerPage |-> <<3>>, decoration |-> <<>>] }

\* a decoration rule's col given as the column's id, as the usage comment
\* gives it
colById(id) == [isIndex |-> FALSE, index |-> 0, id |-> id]

\* a decoration rule's col given as the 0-based position of the cell in a row
colByIndex(n) == [isIndex |-> TRUE, index |-> n, id |-> ""]

\* options.decoration of a widget that decorates its first column as links:
\* the rule of the usage comment, the same rule with the cell's position
\* for col, and a button rule on the second column
DecorationChoices ==
    { << [col |-> colById("col1"), type |-> "link", clickFunction |-> TRUE] >>,
      << [col |-> colByIndex(0), type |-> "link", clickFunction |-> TRUE] >>,
      << [col |-> colByIndex(1), type |-> "button", clickFunction |-> TRUE] >> }

\* the options of a widget constructed with a decoration
DecoratedOptionChoices ==
    {[rowsPerPage |-> <<>>, decoration |-> d] : d \in DecorationChoices}

\* the constructor's options merged with the caller's by $.extend, and
\* this.rowsPerPage taken from the result, without the caller's value
rowsPerPageOfDefaultOnly(opts) == DefaultRowsPerPage

\* the constructor's options merged with the caller's by $.extend, and
\* this.rowsPerPage taken from the result
rowsPerPageOf(opts) ==
    IF opts.rowsPerPage = <<>> THEN DefaultRowsPerPage ELSE opts.rowsPerPage[1]

\* the values this.rowsPerPage is constructed with
RowsPerPageChoices == {rowsPerPageOf(o) : o \in OptionChoices}

\* options.headers: col1 is not sortable, col2 and col3 are
Headers ==
    << [id |-> "col1", isSortable |-> FALSE],
       [id |-> "col2", isSortable |-> TRUE],
       [id |-> "col3", isSortable |-> TRUE] >>

Cols == 1..Len(Headers)

SortableCols == {c \in Cols : Headers[c].isSortable}

\* ------------------------------------------------------------- values
\* JavaScript undefined, for a text (currentQuery before the first keyup)
Undefined == <<"undefined">>

\* the characters typed in the search box
Chars == {" ", "a"}

RECURSIVE TextsOfLen(_)
TextsOfLen(n) ==
    IF n = 0 THEN {<<>>}
    ELSE {Append(t, c) : t \in TextsOfLen(n - 1), c \in Chars}

\* what $searchElement.val() can be at a keyup
InputTexts == UNION {TextsOfLen(n) : n \in 0..MaxTextLen}

\* texts with whitespace at both ends and with whitespace inside
PaddedTexts == { <<" ", "a", " ">>, <<"a", " ", "a">> }

RECURSIVE trimLeft(_)
trimLeft(t) ==
    IF t # <<>> /\ Head(t) = " " THEN trimLeft(Tail(t)) ELSE t

RECURSIVE trimRight(_)
trimRight(t) ==
    IF t # <<>> /\ t[Len(t)] = " " THEN trimRight(SubSeq(t, 1, Len(t) - 1)) ELSE t

\* a trim that leaves the text as it is
trimNothing(t) == t

\* $.trim: leading and trailing whitespace removed, inner whitespace kept
trim(t) == trimRight(trimLeft(t))

\* the rows a page response may carry; a cell is a string of markup, kept as
\* the sequence of its pieces: tags and runs of text
RowChoices ==
    { <<>>,
      << << <<"Alice">>, <<"30">> >>, << <<"Bob">>, <<"41">> >> >> }

\* the row arrays held by a callback that serves stored rows
StoredRows == << << <<"Alice">>, <<"30">> >>, << <<"Bob">>, <<"41">> >> >>

\* the totals the server may report, for a widget with rpp rows per page:
\* nothing, one row, k full pages, k full pages and a half
Totals(rpp) ==
    {0, 1} \cup {k * rpp : k \in 1..MaxPages}
           \cup {k * rpp + (rpp \div 2) : k \in 1..MaxPages}

\* -------------------------------------------------------------- state
VARIABLES
    options,        \* the options the caller passed to the constructor
    source,         \* the row arrays a callback that serves stored rows holds, <<>> if it builds its rows anew for every call
    called,         \* the texts options.decoration's clickFunction was called with by the handler that ran last
    rowsPerPage,    \* this.rowsPerPage
    currentPage,    \* this.currentPage
    currentQuery,   \* this.currentQuery
    currentSort,    \* this.currentSort: 0 is the constructor's {id: null, dir: null}, c > 0 is headers[c]
    sortState,      \* headers[c].sortState
    total,          \* this.total
    start,          \* this.start
    end,            \* this.end
    tBody,          \* the rows of this.$tBody
    icons,          \* the class of the sort icon of each sortable header
    shownText,      \* the text of this.$shownText
    loading,        \* this.$loadingElement is visible
    searchText,     \* the value of $searchElement
    pending,        \* the calls of updateFunction whose promise has not settled, in call order
    effects,        \* the calls of alert and console.error made by the handler that ran last
    lastEvent,      \* history: the handler that ran last
    lastData,       \* history: the response update() applied last, NoData if none
    shown,          \* history: the call whose response is rendered, NoCall if none
    clicked,        \* history: <<row, cell>> of the body cell clicked last, <<>> if none
    cells,          \* custom.js: the cells of the notebook, in order
    selected,       \* custom.js: the index of the selected cell, from 1
    mode            \* custom.js: the notebook's mode, "command" or "edit"

vars ==
    << options, source, called, rowsPerPage, currentPage, currentQuery,
       currentSort, sortState, total, start, end, tBody, icons, shownText,
       loading, searchText, pending, effects, lastEvent, lastData, shown,
       clicked, cells, selected, mode >>

\* the notebook the page of custom.js holds
notebook == << cells, selected, mode >>

\* the table widget but for the history of the handler that ran last
table ==
    << options, source, called, rowsPerPage, currentPage, currentQuery,
       currentSort, sortState, total, start, end, tBody, icons, shownText,
       loading, searchText, pending, effects, lastData, shown, clicked >>

\* the fields and DOM state a user sees as the table's display state
display ==
    << currentPage, currentQuery, currentSort, sortState, total, start, end,
       tBody, icons, shownText >>

\* ------------------------------------------------------------ helpers
\* no response has been handed to update() yet
NoData == [rows |-> <<>>, start |-> 0 - 1, total |-> 0 - 1]

\* no call's response is rendered yet
NoCall ==
    [ args      |-> [page |-> 0 - 1, query |-> Undefined, sortId |-> "null", sortDir |-> <<>>],
      overtaken |-> FALSE ]

\* seq without its i-th element
Remove(seq, i) == SubSeq(seq, 1, i - 1) \o SubSeq(seq, i + 1, Len(seq))

\* getPrevPage without the reset to 0
getPrevPageNoClamp(cp) == cp - 1

\* getPrevPage going back to the first page from any page
getPrevPageToFirst(cp) == 0

\* getPrevPage: this.currentPage--, reset to 0 when below 0; returns this.currentPage
getPrevPage(cp) ==
    LET c1 == cp - 1
    IN  IF c1 < 0 THEN 0 ELSE c1

\* getNextPage comparing with > where the code has >=
getNextPageOffByOne(cp, rpp, tot) ==
    LET c1 == cp + 1
    IN  IF c1 * rpp > tot THEN c1 - 1 ELSE c1

\* getNextPage: this.currentPage++, undone when the page starts at or after
\* total; returns this.currentPage
getNextPage(cp, rpp, tot) ==
    LET c1 == cp + 1
    IN  IF c1 * rpp >= tot THEN c1 - 1 ELSE c1

\* the arguments getNewData passes to options.updateFunction: currentPage,
\* currentQuery, currentSort.id and currentSort.sortState (undefined, <<>>,
\* on the constructor's object, which has id and dir only)
callArgs(page, query, cs, ss) ==
    [ page    |-> page,
      query   |-> query,
      sortId  |-> IF cs = 0 THEN "null" ELSE Headers[cs].id,
      sortDir |-> IF cs = 0 THEN <<>> ELSE <<ss[cs]>> ]

\* a call of updateFunction with arguments a, its promise pending; overtaken
\* (history) is set once a call made after it has resolved before it
newCall(a) == [args |-> a, overtaken |-> FALSE]

\* getNewData up to the return of updateFunction: the spinner is shown and
\* the promise is pending
getNewData(page, query, cs, ss) ==
    /\ Len(pending) < MaxInFlight
    /\ loading' = TRUE
    /\ pending' = Append(pending, newCall(callArgs(page, query, cs, ss)))

\* a click handler that fetches whether or not the page changed
pageChangedAlways(ret, curP) == TRUE

\* the click handlers of the page buttons: getPrevPage() !== curP,
\* getNextPage() !== curP
pageChanged(ret, curP) == ret # curP

\* pending without the i-th call, which resolves; the calls made before it
\* and still pending are overtaken
resolved(calls, i) ==
    Remove([j \in 1..Len(calls) |->
               IF j < i THEN [calls[j] EXCEPT !.overtaken = TRUE] ELSE calls[j]], i)

\* the sort click handler comparing with 0 where the code has 1
toggledFromZero(curState) == IF curState < 0 THEN 1 ELSE 0 - 1

\* the sort click handler's new state of the clicked header
toggled(curState) == IF curState < 1 THEN 1 ELSE 0 - 1

\* update() with the two arrows exchanged
iconClassSwapped(s) ==
    IF s = 0 - 1 THEN "fa-sort-up"
    ELSE IF s = 1 THEN "fa-sort-down"
    ELSE "fa-sort text-muted"

\* update(): the icon class of a sortable header with sort state s
iconClass(s) ==
    IF s = 0 - 1 THEN "fa-sort-down"
    ELSE IF s = 1 THEN "fa-sort-up"
    ELSE "fa-sort text-muted"

\* the markup setData wraps a decorated cell in
linkOpen == "<a style=\"cursor:pointer\">"

linkClose == "</a>"

buttonOpen == "<button class=\"btn btn-default btn-sm\">"

buttonClose == "</button>"

\* setData: the string a rule of the given type assigns to row[dec.col]
decorateCell(cell, type) ==
    IF type = "link" THEN <<linkOpen>> \o cell \o <<linkClose>>
    ELSE IF type = "button" THEN <<buttonOpen>> \o cell \o <<buttonClose>>
    ELSE cell

\* setData: row[dec.col] = ... for one rule.  A col that is a position
\* assigns the element of the array at that position; a col that is an id
\* assigns a property of that name on the array, which is not one of its
\* elements: the elements stay as they are
decorateBy(row, dec) ==
    IF dec.col.isIndex /\ dec.col.index + 1 \in 1..Len(row)
      THEN [row EXCEPT ![dec.col.index + 1] = decorateCell(@, dec.type)]
      ELSE row

\* setData: the first loop over options.decoration, on one row
RECURSIVE decorateRow(_, _)
decorateRow(row, decoration) ==
    IF decoration = <<>> THEN row
    ELSE decorateRow(decorateBy(row, Head(decoration)), Tail(decoration))

\* the row arrays of the data once setData has run over them
decorated(rows) == [k \in 1..Len(rows) |-> decorateRow(rows[k], options.decoration)]

\* setData's loop: each row of the data appended to the body, in order.
\* tableRow makes one td per element of the row, its content the element's
\* markup (the commas join() puts between the tds are text between cells of
\* a tr, which the HTML parser moves out of the row)
RECURSIVE appendRows(_, _)
appendRows(body, rows) ==
    IF rows = <<>> THEN body
    ELSE appendRows(Append(body, Head(rows)), Tail(rows))

\* setData without this.$tBody.empty()
setDataKeepsOld(rows) == appendRows(tBody, decorated(rows))

\* setData: the body is emptied, then filled from the data, each row
\* decorated
setData(rows) == appendRows(<<>>, decorated(rows))

\* a status line that counts the first row from 0
shownTextOfZeroBased(s, e, t) == <<"Showing ", s, " to ", e, " of ", t>>

\* update(): the text of the status line, the pieces concatenated
shownTextOf(s, e, t) == <<"Showing ", s + 1, " to ", e, " of ", t>>

\* this.end without the offset of the page
endOfRowsOnly(data) == Len(data.rows)

\* update(): this.end
endOf(data) == data.start + Len(data.rows)

\* the page responses the server may give to a call
Responses(req) ==
    [ rows  : RowChoices,
      start : {req.args.page * rowsPerPage},
      total : Totals(rowsPerPage) ]

\* --------------------------------------------------------------- Init
\* the state when the constructor returns: fields set, DOM built by
\* initialize() (spinner hidden, icons neutral, body empty), getNewData()
\* called once
Constructed ==
    /\ called = <<>>
    /\ clicked = <<>>
    /\ rowsPerPage = rowsPerPageOf(options)
    /\ searchText = <<>>
    /\ effects = <<>>
    /\ currentPage = 0
    /\ currentQuery = Undefined
    /\ currentSort = 0
    /\ sortState = [c \in Cols |-> 0]
    /\ total = 0
    /\ start = 0
    /\ end = 0
    /\ tBody = <<>>
    /\ icons = [c \in SortableCols |-> "fa-sort text-muted"]
    /\ shownText = <<>>
    /\ loading = TRUE
    /\ pending = <<newCall(callArgs(0, Undefined, 0, [c \in Cols |-> 0]))>>
    /\ lastEvent = "construct"
    /\ lastData = NoData
    /\ shown = NoCall

\* a page without notebook cells
NoNotebook ==
    /\ cells = <<>>
    /\ selected = 0
    /\ mode = "command"

\* a widget constructed without decoration, its callback building the rows
\* of every response anew
Init ==
    /\ options \in OptionChoices
    /\ source = <<>>
    /\ Constructed
    /\ NoNotebook

\* a widget constructed with a decoration; its callback builds the rows of
\* every response anew, or serves the row arrays it holds
InitDecorated ==
    /\ options \in DecoratedOptionChoices
    /\ source \in {<<>>, StoredRows}
    /\ Constructed
    /\ NoNotebook

\* ------------------------------------------------------------ actions
\* click on $leftBtn
PrevClick ==
    LET curP == currentPage
        newP == getPrevPage(currentPage)
    IN  /\ currentPage' = newP
        /\ IF pageChanged(newP, curP)
             THEN getNewData(newP, currentQuery, currentSort, sortState)
             ELSE UNCHANGED <<loading, pending>>
        /\ lastEvent' = "prev"
        /\ effects' = <<>>
        /\ called' = <<>>
        /\ UNCHANGED << notebook, options, source, clicked, rowsPerPage, currentQuery, currentSort, sortState,
                        total, start, end, tBody, icons, shownText, searchText,
                        lastData, shown >>

\* click on $rightBtn
NextClick ==
    LET curP == currentPage
        newP == getNextPage(currentPage, rowsPerPage, total)
    IN  /\ currentPage' = newP
        /\ IF pageChanged(newP, curP)
             THEN getNewData(newP, currentQuery, currentSort, sortState)
             ELSE UNCHANGED <<loading, pending>>
        /\ lastEvent' = "next"
        /\ effects' = <<>>
        /\ called' = <<>>
        /\ UNCHANGED << notebook, options, source, clicked, rowsPerPage, currentQuery, currentSort, sortState,
                        total, start, end, tBody, icons, shownText, searchText,
                        lastData, shown >>

\* keyup in $searchElement, whose value is text
SearchKeyup(text) ==
    /\ searchText' = text
    /\ currentQuery' = trim(text)
    /\ currentPage' = 0
    /\ getNewData(0, trim(text), currentSort, sortState)
    /\ lastEvent' = "search"
    /\ effects' = <<>>
    /\ called' = <<>>
    /\ UNCHANGED << notebook, options, source, clicked, rowsPerPage, currentSort, sortState, total, start,
                    end, tBody, icons, shownText, lastData, shown >>

\* the sort click handler without the reset of the other headers
sortAfterClickNoReset(ss, c) == [ss EXCEPT ![c] = toggled(ss[c])]

\* the sort click handler: every header reset to 0, then the clicked one
\* set from the state it had
sortAfterClick(ss, c) ==
    LET curState == ss[c]
    IN  [h \in Cols |-> IF h = c THEN toggled(curState) ELSE 0]

\* click on the sort button of header c
SortClick(c) ==
    LET newSort == sortAfterClick(sortState, c)
    IN  /\ Headers[c].isSortable
        /\ sortState' = newSort
        /\ currentSort' = c
        /\ getNewData(currentPage, currentQuery, c, newSort)
        /\ lastEvent' = "sort"
        /\ effects' = <<>>
        /\ called' = <<>>
        /\ UNCHANGED << notebook, options, source, clicked, rowsPerPage, currentPage, currentQuery, total,
                        start, end, tBody, icons, shownText, searchText,
                        lastData, shown >>

\* update(data): icons recomputed from the headers' sort state, body
\* replaced, start/end/total and the status line set
update(data) ==
    /\ icons' = [c \in SortableCols |-> iconClass(sortState[c])]
    /\ tBody' = setData(data.rows)
    /\ start' = data.start
    /\ end' = endOf(data)
    /\ total' = data.total
    /\ shownText' = shownTextOf(data.start, endOf(data), data.total)

\* a .finally handler that leaves the spinner as it is
hideLoadingSkipped == UNCHANGED loading

\* the .finally handler of getNewData
hideLoading == loading' = FALSE

\* the i-th pending promise resolves with data: .then runs update(data),
\* .catch is skipped, .finally hides the spinner
Resolve(i, data) ==
    /\ update(data)
    /\ hideLoading
    /\ pending' = resolved(pending, i)
    /\ lastEvent' = "resolved"
    /\ lastData' = data
    /\ shown' = pending[i]
    /\ effects' = <<>>
    /\ called' = <<>>
    /\ UNCHANGED << notebook, options, source, clicked, rowsPerPage, currentPage, currentQuery, currentSort,
                    sortState, searchText >>

\* a .catch handler that empties the table body
onErrorClearsBody ==
    /\ tBody' = <<>>
    /\ effects' = <<"alert", "console.error">>
    /\ called' = <<>>
    /\ UNCHANGED << currentPage, currentQuery, currentSort, sortState, total,
                    start, end, icons, shownText >>

\* a .catch handler that logs the error and does not tell the user
onErrorLogsOnly ==
    /\ effects' = <<"console.error">>
    /\ called' = <<>>
    /\ UNCHANGED << currentPage, currentQuery, currentSort, sortState, total,
                    start, end, tBody, icons, shownText >>

\* a .catch handler that forgets the total
onErrorForgetsTotal ==
    /\ effects' = <<"alert", "console.error">>
    /\ called' = <<>>
    /\ total' = 0
    /\ UNCHANGED << currentPage, currentQuery, currentSort, sortState, start,
                    end, tBody, icons, shownText >>

\* the .catch handler of getNewData: alert and console.error, no field written
onError ==
    /\ effects' = <<"alert", "console.error">>
    /\ called' = <<>>
    /\ UNCHANGED << currentPage, currentQuery, currentSort, sortState, total,
                    start, end, tBody, icons, shownText >>

\* the i-th pending promise rejects: .then is skipped, .catch alerts and
\* logs, .finally hides the spinner
Reject(i) ==
    /\ onError
    /\ hideLoading
    /\ pending' = Remove(pending, i)
    /\ lastEvent' = "rejected"
    /\ UNCHANGED << notebook, options, source, clicked, rowsPerPage, searchText, lastData, shown >>

\* a pending promise settles
Settle ==
    \/ \E i \in 1..Len(pending) : \E data \in Responses(pending[i]) : Resolve(i, data)
    \/ \E i \in 1..Len(pending) : Reject(i)

\* a click on one of the two page buttons
Navigate ==
    \/ PrevClick
    \/ NextClick

Next ==
    \/ Navigate
    \/ \E text \in InputTexts : SearchKeyup(text)
    \/ \E c \in SortableCols : SortClick(c)
    \/ Settle

\* every interleaving of the handlers
Spec == Init /\ [][Next]_vars

\* the user pages only
NextNav ==
    \/ Navigate
    \/ Settle

SpecNav == Init /\ [][NextNav]_vars

\* the user sorts only
NextSort ==
    \/ \E c \in SortableCols : SortClick(c)
    \/ Settle

SpecSort == Init /\ [][NextSort]_vars

\* the user types in the search box only
NextSearch ==
    \/ \E text \in InputTexts : SearchKeyup(text)
    \/ Settle

SpecSearch == Init /\ [][NextSearch]_vars

\* the i-th pending promise resolves with a total that is the one the
\* widget holds, unless no response has been applied yet
ResolveSameTotal(i, data) ==
    /\ lastData = NoData \/ data.total = total
    /\ Resolve(i, data)

\* the user pages only and the server's total does not change
NextNavStable ==
    \/ Navigate
    \/ \E i \in 1..Len(pending) : \E data \in Responses(pending[i]) : ResolveSameTotal(i, data)
    \/ \E i \in 1..Len(pending) : Reject(i)

SpecNavStable == Init /\ [][NextNavStable]_vars

\* a click on a page button while no call is pending
NavigateIdle ==
    /\ pending = <<>>
    /\ Navigate

\* the user types in the search box at any time and clicks the page buttons
\* while no call is pending, and the server's total does not change
NextNavSearch ==
    \/ NavigateIdle
    \/ \E text \in InputTexts \cup PaddedTexts : SearchKeyup(text)
    \/ \E i \in 1..Len(pending) : \E data \in Responses(pending[i]) : ResolveSameTotal(i, data)
    \/ \E i \in 1..Len(pending) : Reject(i)

SpecNavSearch == Init /\ [][NextNavSearch]_vars

\* a piece of a cell's markup that opens an element
isOpen(p) == p \in {linkOpen, buttonOpen}

\* a piece of a cell's markup that is text
isText(p) == p \notin {linkOpen, linkClose, buttonOpen, buttonClose}

\* the tag that closes the element p opens
closeOf(p) == IF p = linkOpen THEN linkClose ELSE buttonClose

\* the td with this markup has a child element
hasElement(cell) == \E k \in 1..Len(cell) : isOpen(cell[k])

\* $clickElem.text() for the first child element of the td with this markup:
\* the element runs from the first opening tag to its closing tag, or to
\* the next opening tag of its kind (an a in an open a, a button in an open
\* button, closes the open one)
elementText(cell) ==
    LET k == CHOOSE i \in 1..Len(cell) :
                 isOpen(cell[i]) /\ \A j \in 1..(i - 1) : ~isOpen(cell[j])
        ends == {j \in (k + 1)..Len(cell) : cell[j] \in {cell[k], closeOf(cell[k])}}
        e == IF ends = {} THEN Len(cell) + 1
             ELSE CHOOSE j \in ends : \A j2 \in ends : j <= j2
    IN  SelectSeq(SubSeq(cell, k + 1, e - 1), isText)

\* setData's second loop: the rule dec gets a click handler on the first
\* child element of the c-th td of the row, found by
\* 'td:eq(' + dec.col + ') > :eq(0)', which matches nothing when dec.col is
\* not a number
binds(dec, cell, c) ==
    /\ dec.clickFunction
    /\ dec.col.isIndex
    /\ dec.col.index + 1 = c
    /\ hasElement(cell)

\* the rules whose click handler is bound in the c-th td of a row, in the
\* order they were bound
RECURSIVE boundRules(_, _, _)
boundRules(decoration, cell, c) ==
    IF decoration = <<>> THEN <<>>
    ELSE (IF binds(Head(decoration), cell, c) THEN <<Head(decoration)>> ELSE <<>>)
             \o boundRules(Tail(decoration), cell, c)

\* a click in the c-th cell of the r-th row of the body, on its first child
\* element if it has one: every handler bound there calls its rule's
\* clickFunction with the element's text
Click(r, c) ==
    /\ r \in 1..Len(tBody)
    /\ c \in 1..Len(tBody[r])
    /\ called' = [k \in 1..Len(boundRules(options.decoration, tBody[r][c], c)) |->
                     elementText(tBody[r][c])]
    /\ clicked' = <<r, c>>
    /\ lastEvent' = "click"
    /\ effects' = <<>>
    /\ UNCHANGED << notebook, options, source, rowsPerPage, currentPage, currentQuery,
                    currentSort, sortState, total, start, end, tBody, icons,
                    shownText, loading, searchText, pending, lastData, shown >>

\* the i-th pending promise of a callback that builds its rows anew resolves
ResolveFresh(i, data) ==
    /\ source = <<>>
    /\ Resolve(i, data)

\* how often the stored rows have been rendered, seen from the markup a
\* position-decorated cell has gathered
renders(rows) == (Len(rows[1][1]) + Len(rows[1][2]) - 2) \div 2

\* the i-th pending promise of a callback that serves stored rows resolves
\* with the row arrays it holds: setData writes the decorated strings into
\* those arrays
ResolveStored(i) ==
    LET data == [rows |-> source, start |-> 0, total |-> Len(source)]
    IN  /\ source # <<>>
        /\ renders(source) < MaxRenders
        /\ update(data)
        /\ hideLoading
        /\ source' = decorated(source)
        /\ pending' = resolved(pending, i)
        /\ lastEvent' = "resolved"
        /\ lastData' = data
        /\ shown' = pending[i]
        /\ effects' = <<>>
        /\ called' = <<>>
        /\ UNCHANGED << notebook, options, clicked, rowsPerPage, currentPage, currentQuery,
                        currentSort, sortState, searchText >>

\* a widget with a decoration: the user types in the search box and clicks
\* in the cells of the body
NextDecorated ==
    \/ \E text \in InputTexts : SearchKeyup(text)
    \/ \E r \in 1..Len(tBody) : \E c \in 1..2 : Click(r, c)
    \/ \E i \in 1..Len(pending) : \E data \in Responses(pending[i]) : ResolveFresh(i, data)
    \/ \E i \in 1..Len(pending) : ResolveStored(i)
    \/ \E i \in 1..Len(pending) : Reject(i)

SpecDecorated == InitDecorated /\ [][NextDecorated]_vars

\* getNewData when options.updateFunction throws before it returns a
\* promise: the spinner has been shown, no promise chain exists, and the
\* exception leaves getNewData
getNewDataThrows ==
    /\ loading' = TRUE
    /\ pending' = pending
    /\ effects' = <<"uncaught">>

\* keyup in $searchElement, whose value is text, with a callback that
\* throws: the handler has written its fields when getNewData throws, and
\* the exception leaves the handler
SearchKeyupThrows(text) ==
    /\ searchText' = text
    /\ currentQuery' = trim(text)
    /\ currentPage' = 0
    /\ getNewDataThrows
    /\ lastEvent' = "searchThrew"
    /\ called' = <<>>
    /\ UNCHANGED << notebook, options, source, clicked, rowsPerPage, currentSort, sortState,
                    total, start, end, tBody, icons, shownText, lastData, shown >>

\* the user types in the search box, and the callback may throw instead of
\* returning a promise
NextSearchThrows ==
    \/ \E text \in InputTexts : SearchKeyup(text)
    \/ \E text \in InputTexts : SearchKeyupThrows(text)
    \/ Settle

SpecSearchThrows == Init /\ [][NextSearchThrows]_vars

\* update(data) for a response without rows: the icons have been recomputed
\* and setData has emptied the body when data.forEach throws; start, end,
\* total and the status line are not reached
updateWithoutRows ==
    /\ icons' = [c \in SortableCols |-> iconClass(sortState[c])]
    /\ tBody' = <<>>
    /\ UNCHANGED << start, end, total, shownText >>

\* the i-th pending promise resolves with a response that has no rows:
\* .then runs update(data), which throws partway, .catch alerts and logs,
\* .finally hides the spinner
ResolveWithoutRows(i) ==
    /\ i \in 1..Len(pending)
    /\ updateWithoutRows
    /\ effects' = <<"alert", "console.error">>
    /\ hideLoading
    /\ pending' = Remove(pending, i)
    /\ lastEvent' = "malformed"
    /\ called' = <<>>
    /\ UNCHANGED << notebook, options, source, clicked, rowsPerPage, currentPage, currentQuery,
                    currentSort, sortState, searchText, lastData, shown >>

\* the user sorts only, and the server may answer without rows
NextSortMalformed ==
    \/ \E c \in SortableCols : SortClick(c)
    \/ Settle
    \/ \E i \in 1..Len(pending) : ResolveWithoutRows(i)

SpecSortMalformed == Init /\ [][NextSortMalformed]_vars

\* a click on a page button, a keyup in the search box or a click on a sort
\* button, while no call is pending
UserActsIdle ==
    /\ pending = <<>>
    /\ \/ Navigate
       \/ \E text \in InputTexts : SearchKeyup(text)
       \/ \E c \in SortableCols : SortClick(c)

\* the user pages, types and sorts, one action at a time, waiting for the
\* call to settle
NextIdle ==
    \/ UserActsIdle
    \/ Settle

SpecIdle == Init /\ [][NextIdle]_vars

\* the page responses of a server that holds 100 rows
ResponsesOf100(req) ==
    [ rows  : RowChoices,
      start : {req.args.page * rowsPerPage},
      total : {100} ]

\* the user pages through a table of 100 rows, clicking while no call is
\* pending
NextNav100 ==
    \/ NavigateIdle
    \/ \E i \in 1..Len(pending) : \E data \in ResponsesOf100(pending[i]) : Resolve(i, data)
    \/ \E i \in 1..Len(pending) : Reject(i)

SpecNav100 == Init /\ [][NextNav100]_vars

\* ---------------------------------------------------- custom.js: cells
\* the two toggle modes of a cell
Modes == {"maximized", "minimized"}

\* no data on the cell's node, no property in its metadata
NoMode == "none"

\* utils.getCellMeta(cell, 'kbase.cellState.toggleMinMax')
getCellMeta(cell) == cell.metaMode

\* utils.setCellMeta(cell, 'kbase.cellState.toggleMinMax', value, true)
setCellMeta(cell, value) == [cell EXCEPT !.metaMode = value]

\* minimize: the cell's input and output areas get the class hidden
minimize(cell) == [cell EXCEPT !.hidden = TRUE]

\* maximize: the class hidden is removed
maximize(cell) == [cell EXCEPT !.hidden = FALSE]

\* Cell.prototype.renderMinMax: the node's mode, taken from the metadata or
\* set to maximized when the node has none, then the cell shown to match
renderMinMax(cell) ==
    LET metaToggleMode == getCellMeta(cell)
        toggleMode ==
            IF cell.nodeMode # NoMode THEN cell.nodeMode
            ELSE IF metaToggleMode # NoMode THEN metaToggleMode
            ELSE "maximized"
        c1 == [cell EXCEPT !.nodeMode = toggleMode]
    IN  IF toggleMode = "maximized" THEN maximize(c1)
        ELSE IF toggleMode = "minimized" THEN minimize(c1)
        ELSE c1

\* a switch that leaves a maximized cell maximized
flippedOneWay(toggleMode) == "maximized"

\* the switch of toggleMinMax
flipped(toggleMode) ==
    IF toggleMode = "maximized" THEN "minimized"
    ELSE IF toggleMode = "minimized" THEN "maximized"
    ELSE toggleMode

\* $cellNode.data('toggleMinMax') || 'maximized'
modeOrDefault(cell) == IF cell.nodeMode = NoMode THEN "maximized" ELSE cell.nodeMode

\* Cell.prototype.toggleMinMax: the node's mode flipped, the cell rendered,
\* the metadata set
toggleMinMax(cell) ==
    LET toggleMode == flipped(modeOrDefault(cell))
    IN  setCellMeta(renderMinMax([cell EXCEPT !.nodeMode = toggleMode]), toggleMode)

\* the toggleMinMax.cell event reaches cell i
ToggleMinMax(i) ==
    /\ cells' = [cells EXCEPT ![i] =
                     [toggleMinMax(cells[i]) EXCEPT !.before = modeOrDefault(cells[i])]]
    /\ lastEvent' = "toggleMinMax"
    /\ UNCHANGED << table, selected, mode >>

\* the preset_activated.CellToolbar event for the KBase preset reaches cell i
RenderMinMax(i) ==
    /\ cells' = [cells EXCEPT ![i] = [renderMinMax(cells[i]) EXCEPT !.before = NoMode]]
    /\ lastEvent' = "renderMinMax"
    /\ UNCHANGED << table, selected, mode >>

\* a cell as the notebook file gives it: no data on its node, shown in full,
\* its metadata with or without a toggle mode; before (history) is the mode
\* the cell counted as when it was toggled, if a toggle is what happened to
\* it last
LoadedCells ==
    { [ kb |-> FALSE, lastLine |-> 0, lineLen |-> 0, cur |-> <<0, 0>>,
        nodeMode |-> NoMode, metaMode |-> m, hidden |-> FALSE, before |-> NoMode ]
      : m \in Modes \cup {NoMode} }

\* the table widget of the page, as constructed
TableConstructed ==
    /\ options = [rowsPerPage |-> <<>>, decoration |-> <<>>]
    /\ source = <<>>
    /\ Constructed

\* a notebook loaded with up to MaxCells cells
InitMinMax ==
    /\ TableConstructed
    /\ \E n \in 1..MaxCells : cells \in [1..n -> LoadedCells]
    /\ selected = 1
    /\ mode = "command"

NextMinMax ==
    \/ \E i \in 1..Len(cells) : ToggleMinMax(i)
    \/ \E i \in 1..Len(cells) : RenderMinMax(i)

SpecMinMax == InitMinMax /\ [][NextMinMax]_vars

\* -------------------------------------------- custom.js: cursor actions
\* the documents a cell's editor holds: one empty line, or two lines of one
\* character each
Docs == { [lastLine |-> 0, lineLen |-> 0], [lastLine |-> 1, lineLen |-> 1] }

\* a cell as loaded: a KBase cell (metadata 'kb-cell') or not, its document,
\* the cursor at the start
EditableCells ==
    { [ kb |-> k, lastLine |-> d.lastLine, lineLen |-> d.lineLen, cur |-> <<0, 0>>,
        nodeMode |-> NoMode, metaMode |-> NoMode, hidden |-> FALSE, before |-> NoMode ]
      : k \in BOOLEAN, d \in Docs }

\* the cursor positions of a cell's editor
Positions(cell) == (0..cell.lastLine) \X (0..cell.lineLen)

\* cell.at_top(): the cursor is at the start of the first line
at_top(cell) == cell.cur = <<0, 0>>

\* cell.at_bottom(): the cursor is at the end of the last line
at_bottom(cell) == cell.cur = <<cell.lastLine, cell.lineLen>>

\* the editor's own handling of the key, which the handler leaves to it by
\* returning false: one line down, or to the end of the last line
goLineDown(cell) ==
    IF cell.cur[1] < cell.lastLine
    THEN [cell EXCEPT !.cur = <<cell.cur[1] + 1, cell.cur[2]>>]
    ELSE [cell EXCEPT !.cur = <<cell.lastLine, cell.lineLen>>]

\* one line up, or to the start of the first line
goLineUp(cell) ==
    IF cell.cur[1] > 0
    THEN [cell EXCEPT !.cur = <<cell.cur[1] - 1, cell.cur[2]>>]
    ELSE [cell EXCEPT !.cur = <<0, 0>>]

\* a check that takes every cell for an editable one
entersEditAlways(cell) == TRUE

\* !env.notebook.get_selected_cell().metadata['kb-cell']
entersEdit(cell) == ~cell.kb

\* the handler of move-cursor-down
MoveCursorDown ==
    LET index == selected
        cell == cells[index]
    IN  /\ IF at_bottom(cell) /\ index # Len(cells)
           THEN /\ selected' = index + 1
                /\ IF entersEdit(cells[index + 1])
                   THEN /\ mode' = "edit"
                        /\ cells' = [cells EXCEPT ![index + 1].cur = <<0, 0>>]
                   ELSE /\ mode' = "command"
                        /\ cells' = cells
           ELSE /\ cells' = [cells EXCEPT ![index] = goLineDown(cell)]
                /\ UNCHANGED << selected, mode >>
        /\ lastEvent' = "down"
        /\ UNCHANGED table

\* the handler of move-cursor-up
MoveCursorUp ==
    LET index == selected
        cell == cells[index]
        cur == cell.cur
    IN  /\ IF at_top(cell) /\ index # 1 /\ cur[2] = 0
           THEN /\ selected' = index - 1
                /\ IF entersEdit(cells[index - 1])
                   THEN /\ mode' = "edit"
                        /\ cells' = [cells EXCEPT ![index - 1].cur =
                                         <<cells[index - 1].lastLine, 0>>]
                   ELSE /\ mode' = "command"
                        /\ cells' = cells
           ELSE /\ cells' = [cells EXCEPT ![index] = goLineUp(cell)]
                /\ UNCHANGED << selected, mode >>
        /\ lastEvent' = "up"
        /\ UNCHANGED table

\* the user puts the cursor somewhere in the cell being edited
PlaceCursor(pos) ==
    /\ mode = "edit"
    /\ pos \in Positions(cells[selected])
    /\ cells' = [cells EXCEPT ![selected].cur = pos]
    /\ lastEvent' = "cursor"
    /\ UNCHANGED << table, selected, mode >>

\* the user selects cell i
SelectCell(i) ==
    /\ selected' = i
    /\ mode' = "command"
    /\ lastEvent' = "select"
    /\ UNCHANGED << table, cells >>

\* the user starts editing the selected cell
EnterEdit ==
    /\ mode = "command"
    /\ mode' = "edit"
    /\ lastEvent' = "edit"
    /\ UNCHANGED << table, cells, selected >>

\* a notebook loaded with up to MaxCells cells, the first one selected
InitCursor ==
    /\ TableConstructed
    /\ \E n \in 1..MaxCells : cells \in [1..n -> EditableCells]
    /\ selected = 1
    /\ mode = "command"

NextCursor ==
    \/ MoveCursorDown
    \/ MoveCursorUp
    \/ \E pos \in Positions(cells[selected]) : PlaceCursor(pos)
    \/ \E i \in 1..Len(cells) : SelectCell(i)
    \/ EnterEdit

SpecCursor == InitCursor /\ [][NextCursor]_vars

\* ------------------------------------------------------------- claims
TypeOK ==
    /\ currentPage \in Int
    /\ loading \in BOOLEAN
    /\ Len(pending) <= MaxInFlight

\* the last page of a table of tot rows shown rpp rows a page
lastPage(tot, rpp) == (tot - 1) \div rpp

\* C1: with the total the same in every response, whatever the page buttons
\* clicked, currentPage is in 0..floor((total-1)/rowsPerPage) when total > 0
\* and is 0 when total = 0.
C1_PageWithinRange ==
    IF total > 0
      THEN currentPage \in 0..lastPage(total, rowsPerPage)
      ELSE currentPage = 0

\* a click on next at the last page of a table of several pages did nothing
C1_Witness ==
    /\ lastEvent = "next"
    /\ pending = <<>>
    /\ total > rowsPerPage
    /\ currentPage = lastPage(total, rowsPerPage)

\* C2: currentPage >= 0 in every state, and in the state a page button's
\* handler leaves, currentPage * rowsPerPage < total when total > 0, also
\* when responses have lowered the total.
C2_PageInRangeAfterNavigation ==
    /\ currentPage >= 0
    /\ (lastEvent \in {"prev", "next"} /\ total > 0)
         => currentPage * rowsPerPage < total

\* C3: the step in which a rejection is handled changes none of currentPage,
\* query, sort state, rendered rows, icons, start, end, total and status
\* line, and leaves the spinner hidden.  (The handler that called getNewData
\* wrote its fields before the call, and getNewData itself writes none of
\* them: with no step between the call and the rejection, the state the
\* rejection finds is the state at the call.)
C3_RejectionLeavesDisplay ==
    [][lastEvent' = "rejected" => (display' = display /\ loading' = FALSE)]_vars

\* a rejection was handled with rows rendered and a column sorted
C3_Witness ==
    /\ lastEvent = "rejected"
    /\ tBody # <<>>
    /\ currentSort # 0
    /\ ~loading

\* C4: after a failed fetch, currentPage, query and sort are the ones the
\* rendered rows were fetched with.
C4_FailedFetchStaysOnRendered ==
    (lastEvent = "rejected" /\ shown # NoCall)
        => callArgs(currentPage, currentQuery, currentSort, sortState) = shown.args

\* C5: once a response has been applied, the rendered rows, start, end, total
\* and the status line are those of the response that resolved last, also
\* when that response answers a call made before one that resolved earlier.
C5_LastResolvedWins ==
    lastData # NoData =>
        /\ tBody = lastData.rows
        /\ start = lastData.start
        /\ end = lastData.start + Len(lastData.rows)
        /\ total = lastData.total
        /\ shownText = <<"Showing ", start + 1, " to ", end, " of ", total>>

\* both of two overlapping calls have resolved, the one made first resolving last
C5_Witness ==
    /\ lastEvent = "resolved"
    /\ pending = <<>>
    /\ shown.overtaken

\* C6: whenever a call's promise is pending, the spinner is visible.
C6_SpinnerShownWhileInFlight ==
    pending # <<>> => loading

\* C7: the state a settling promise leaves has the spinner hidden, and the
\* spinner is hidden whenever no promise is pending.
C7_SpinnerHiddenWhenSettled ==
    /\ lastEvent \in {"resolved", "rejected"} => ~loading
    /\ pending = <<>> => ~loading

\* the last pending promise rejected
C7_Witness ==
    /\ lastEvent = "rejected"
    /\ pending = <<>>
    /\ currentPage > 0

\* C8: the icon of every sortable header is the one of its sort state.
C8_IconsReflectSortState ==
    \A c \in SortableCols : icons[c] = iconClass(sortState[c])

\* C9: a click on a page button calls getNewData once when it changed
\* currentPage and not at all when it did not; previous at page 0 and next at
\* the last page make no call.
C9_NavFetchIffPageChanged ==
    [][lastEvent' \in {"prev", "next"} =>
         /\ currentPage' # currentPage =>
                /\ Len(pending') = Len(pending) + 1
                /\ SubSeq(pending', 1, Len(pending)) = pending
         /\ currentPage' = currentPage => pending' = pending
         /\ (lastEvent' = "prev" /\ currentPage = 0) => pending' = pending
         /\ (lastEvent' = "next" /\ (currentPage + 1) * rowsPerPage >= total)
                => pending' = pending
      ]_vars

\* previous was clicked at page 0 of a table of several pages: no call
C9_Witness ==
    /\ lastEvent = "prev"
    /\ currentPage = 0
    /\ total > rowsPerPage
    /\ pending = <<>>

\* C10: getNextPage at the last page, (currentPage + 1) * rowsPerPage >= total,
\* leaves currentPage as it is; otherwise it adds 1.  (What it returns is
\* this.currentPage, read after the update.)
C10_NextPageStep ==
    [][lastEvent' = "next" =>
         currentPage' = IF (currentPage + 1) * rowsPerPage >= total
                          THEN currentPage
                          ELSE currentPage + 1
      ]_vars

\* total 25, 10 rows a page, page 2: next was clicked and made no call
C10_Witness ==
    /\ lastEvent = "next"
    /\ total = 25
    /\ rowsPerPage = 10
    /\ currentPage = 2
    /\ pending = <<>>

\* C11: getPrevPage at page 0 leaves currentPage at 0 and returns 0; at a page
\* p > 0 it sets currentPage to p - 1 and returns p - 1.  (What it returns is
\* what the click handler compares with the page before, and what the call it
\* then makes carries as its page.)
C11_PrevPageStep ==
    [][lastEvent' = "prev" =>
         /\ currentPage = 0 => (currentPage' = 0 /\ pending' = pending)
         /\ currentPage > 0 =>
                /\ currentPage' = currentPage - 1
                /\ Len(pending') = Len(pending) + 1
                /\ pending'[Len(pending')].args.page = currentPage - 1
      ]_vars

\* previous was clicked at page 2, and the page 1 it asked for is pending
C11_Witness ==
    /\ lastEvent = "prev"
    /\ currentPage = 1
    /\ pending # <<>>
    /\ pending[Len(pending)].args.page = 1

\* C12: a click on the sort button of a sortable column sets that column to
\* ascending (1) if it was none (0) or descending (-1) and to descending if it
\* was ascending, sets every other column to none, and makes one call.
C12_ToggleSortCycle ==
    [][lastEvent' = "sort" =>
         /\ currentSort' \in SortableCols
         /\ sortState'[currentSort'] =
                IF sortState[currentSort'] = 1 THEN 0 - 1 ELSE 1
         /\ \A h \in Cols \ {currentSort'} : sortState'[h] = 0
         /\ Len(pending') = Len(pending) + 1
         /\ SubSeq(pending', 1, Len(pending)) = pending
      ]_vars

\* col2 was clicked twice in a row: the first call asked for ascending, the
\* second for descending
C12_Witness ==
    /\ lastEvent = "sort"
    /\ sortState[2] = 0 - 1
    /\ Len(pending) = 2
    /\ pending[1].args.sortId = "col2"
    /\ pending[1].args.sortDir = <<1>>
    /\ pending[2].args.sortDir = <<0 - 1>>

\* C13: in every state at most one column has a sort state other than 0
\* (none), that column is sortable, and a column that is not sortable has
\* sort state 0.
C13_SingleSortColumn ==
    /\ Cardinality({c \in Cols : sortState[c] # 0}) <= 1
    /\ \A c \in Cols : sortState[c] # 0 => Headers[c].isSortable
    /\ \A c \in Cols : ~Headers[c].isSortable => sortState[c] = 0

\* col3 was clicked while the call made by the click on col2 is pending:
\* col3 is sorted, col2 is not any more
C13_Witness ==
    /\ lastEvent = "sort"
    /\ currentSort = 3
    /\ sortState[3] # 0
    /\ sortState[2] = 0
    /\ Len(pending) = 2
    /\ pending[1].args.sortId = "col2"

\* n spaces
RECURSIVE spaces(_)
spaces(n) == IF n = 0 THEN <<>> ELSE <<" ">> \o spaces(n - 1)

\* q is text t without the whitespace at its two ends
isTrimOf(q, t) ==
    /\ q = <<>> \/ (q[1] # " " /\ q[Len(q)] # " ")
    /\ \E i \in 0..Len(t) : \E j \in 0..Len(t) : t = spaces(i) \o q \o spaces(j)

\* C14: every keyup in the search box sets currentQuery to the text of the
\* box without the whitespace at its ends, sets currentPage to 0 whatever it
\* was, and makes exactly one call, for page 0 and that query, also when the
\* text is the one of the keyup before.
C14_KeystrokeResetsPage ==
    [][lastEvent' = "search" =>
         /\ isTrimOf(currentQuery', searchText')
         /\ currentPage' = 0
         /\ Len(pending') = Len(pending) + 1
         /\ SubSeq(pending', 1, Len(pending)) = pending
         /\ pending'[Len(pending')].args.page = 0
         /\ pending'[Len(pending')].args.query = currentQuery'
      ]_vars

\* a key was released with " a " in the box while the call for page 1, made
\* by the next button, was pending: the widget is at page 0 and asks for "a"
C14_Witness ==
    /\ lastEvent = "search"
    /\ searchText = <<" ", "a", " ">>
    /\ currentQuery = <<"a">>
    /\ currentPage = 0
    /\ Len(pending) = 2
    /\ pending[1].args.page = 1
    /\ pending[2].args.page = 0
    /\ pending[2].args.query = <<"a">>

\* the columns whose sort state is not 0 (none)
sortedCols == {c \in Cols : sortState[c] # 0}

\* the display state as a call's arguments: currentPage, currentQuery, the
\* id of the sorted column and its direction, null and 0 (none) when no
\* column is sorted
displayArgs ==
    [ page    |-> currentPage,
      query   |-> currentQuery,
      sortId  |-> IF sortedCols = {} THEN "null"
                  ELSE Headers[CHOOSE c \in sortedCols : TRUE].id,
      sortDir |-> IF sortedCols = {} THEN <<0>>
                  ELSE <<sortState[CHOOSE c \in sortedCols : TRUE]>> ]

\* C15: the call made by the constructor, by a keyup in the search box and by
\* a sort click carries the display state of the moment: currentPage,
\* currentQuery, the id of the sorted column (null when none is sorted) and
\* its direction (none when none is sorted).
C15_CallCarriesDisplayState ==
    lastEvent \in {"construct", "search", "sort"} =>
        /\ pending # <<>>
        /\ pending[Len(pending)].args = displayArgs

\* C16: the step in which a call resolves with {rows, start, total} leaves
\* the body holding the rows of that response, in order and nothing else,
\* start at the response's start, end at start + rows.length and total at the
\* response's total.  (options.decoration is the default, empty list.)
C16_ResolveReplacesBody ==
    [][lastEvent' = "resolved" =>
         /\ Len(tBody') = Len(lastData'.rows)
         /\ \A k \in 1..Len(tBody') : tBody'[k] = lastData'.rows[k]
         /\ start' = lastData'.start
         /\ end' = lastData'.start + Len(lastData'.rows)
         /\ total' = lastData'.total
      ]_vars

\* the call for page 1 resolved with two rows
C16_Witness ==
    /\ lastEvent = "resolved"
    /\ shown.args.page = 1
    /\ start = rowsPerPage
    /\ Len(tBody) = 2
    /\ tBody[1][1] = <<"Alice">>
    /\ tBody[2][1] = <<"Bob">>
    /\ end = start + 2

\* C17: once a response has been applied, the status line reads "Showing
\* {start+1} to {end} of {total}" with start and total those of the response
\* applied last and end its start plus the number of its rows.
C17_StatusLine ==
    lastData # NoData =>
        shownText = << "Showing ", lastData.start + 1,
                       " to ", lastData.start + Len(lastData.rows),
                       " of ", lastData.total >>

\* a response with 2 rows, start 10 and total 100 was applied: the status
\* line reads "Showing 11 to 12 of 100"
C17_Witness ==
    /\ lastEvent = "resolved"
    /\ Len(lastData.rows) = 2
    /\ lastData.start = 10
    /\ lastData.total = 100
    /\ shownText = <<"Showing ", 11, " to ", 12, " of ", 100>>

\* C18: the step in which a rejection is handled calls alert once and
\* console.error once and nothing else (nothing is thrown on), and makes no
\* call of updateFunction; a call is made only by a step of a user's action.
C18_FailureReportedOnceNoRetry ==
    [][/\ lastEvent' = "rejected" =>
            /\ effects' = <<"alert", "console.error">>
            /\ Len(pending') = Len(pending) - 1
            /\ \A k \in 1..Len(pending') : \E j \in 1..Len(pending) : pending'[k] = pending[j]
       /\ Len(pending') > Len(pending) => lastEvent' \in {"prev", "next", "search", "sort"}
      ]_vars

\* the call made by a keyup with "a" in the box was rejected, no call is
\* pending
C18_Witness ==
    /\ lastEvent = "rejected"
    /\ effects = <<"alert", "console.error">>
    /\ currentQuery = <<"a">>
    /\ pending = <<>>
    /\ ~loading

\* C19: the constructor leaves currentPage 0, every column's sort state 0
\* (none), start, end and total 0, and exactly one call pending, for page 0;
\* rowsPerPage is the configured value, 10 when none is configured, in the
\* state the constructor leaves and in every state after it.
C19_Construction ==
    /\ lastEvent = "construct" =>
            /\ currentPage = 0
            /\ \A c \in Cols : sortState[c] = 0
            /\ start = 0 /\ end = 0 /\ total = 0
            /\ Len(pending) = 1
            /\ pending[1].args.page = 0
    /\ rowsPerPage = IF options.rowsPerPage = <<>> THEN 10 ELSE options.rowsPerPage[1]

\* a widget configured with 3 rows a page has been constructed
C19_Witness ==
    /\ lastEvent = "construct"
    /\ options.rowsPerPage = <<3>>
    /\ rowsPerPage = 3
    /\ Len(pending) = 1
    /\ loading

\* C20: in the state a resolving call leaves, the icon of every sortable
\* column is the one of the sort state the column has in that state: the up
\* arrow for 1 (ascending), the down arrow for -1 (descending), the neutral
\* icon for 0 (none), whatever sort the call had been sent with.
C20_IconsAfterUpdate ==
    lastEvent = "resolved" =>
        \A c \in SortableCols :
            /\ sortState[c] = 1 => icons[c] = "fa-sort-up"
            /\ sortState[c] = 0 - 1 => icons[c] = "fa-sort-down"
            /\ sortState[c] = 0 => icons[c] = "fa-sort text-muted"

\* the call sent with col2 ascending resolved after col3 was clicked: col3
\* shows the up arrow, col2 the neutral icon
C20_Witness ==
    /\ lastEvent = "resolved"
    /\ shown.args.sortId = "col2"
    /\ shown.args.sortDir = <<1>>
    /\ sortState[3] = 1
    /\ icons[3] = "fa-sort-up"
    /\ icons[2] = "fa-sort text-muted"

\* C21: for a rule of options.decoration with the id of a column for col,
\* type link and a clickFunction, the state a resolving call leaves has, in
\* every row of the body, that column's cell holding a link around the text
\* the response gave for it, and a click in such a cell calls clickFunction
\* once, with that text.
C21_LinkDecorationById ==
    \A k \in 1..Len(options.decoration) :
        LET dec == options.decoration[k]
        IN  (~dec.col.isIndex /\ dec.type = "link" /\ dec.clickFunction) =>
                \A c \in Cols : Headers[c].id = dec.col.id =>
                    /\ lastEvent = "resolved" =>
                           \A r \in 1..Len(tBody) :
                               tBody[r][c] = <<linkOpen>> \o lastData.rows[r][c] \o <<linkClose>>
                    /\ (lastEvent = "click" /\ clicked[2] = c) =>
                           called = << lastData.rows[clicked[1]][c] >>

\* the handler that ran last called f
didCall(f) == \E k \in 1..Len(effects) : effects[k] = f

\* C22: whether the callback's promise rejects or the callback throws before
\* returning one, the state getNewData's handling of the failure leaves has
\* the spinner hidden and the error reported by alert, and no exception has
\* left the handler that called getNewData.
C22_EveryFailureHandled ==
    lastEvent \in {"rejected", "searchThrew"} =>
        /\ ~loading
        /\ didCall("alert")
        /\ ~didCall("uncaught")

\* C23: the step in which a resolved response without rows is handed to
\* update() reports the failure by alert, hides the spinner, and leaves the
\* body, the icons, start, end, total and the status line as they were.
C23_FailedUpdateChangesNothing ==
    [][lastEvent' = "malformed" =>
         /\ \E k \in 1..Len(effects') : effects'[k] = "alert"
         /\ loading' = FALSE
         /\ tBody' = tBody
         /\ icons' = icons
         /\ start' = start /\ end' = end /\ total' = total
         /\ shownText' = shownText
      ]_vars

\* C24: with a callback that hands over the row arrays it holds at every
\* call, rendering leaves those arrays as the callback made them, and after
\* every applied response the body is the one the first rendering of them
\* gave, the cell of a rule whose col is a position holding the rule's
\* markup once around the stored text.
C24_RenderingIdempotent ==
    source # <<>> =>
        /\ source = StoredRows
        /\ lastData # NoData =>
               /\ tBody = setData(StoredRows)
               /\ \A k \in 1..Len(options.decoration) :
                      LET dec == options.decoration[k]
                          c == dec.col.index + 1
                      IN  dec.col.isIndex =>
                              \A r \in 1..Len(tBody) :
                                  tBody[r][c] =
                                      IF dec.type = "link"
                                        THEN <<linkOpen>> \o StoredRows[r][c] \o <<linkClose>>
                                        ELSE <<buttonOpen>> \o StoredRows[r][c] \o <<buttonClose>>

\* C25: a sort click leaves currentPage and currentQuery as they are, and so
\* does every step but a page button's and a keyup's for currentPage; a
\* click on a page button leaves currentQuery and every column's sort state
\* as they are; start, end and total change in no step but the one in which
\* a resolved response is applied.
C25_FrameOfHandlers ==
    [][/\ lastEvent' = "sort" =>
            (currentPage' = currentPage /\ currentQuery' = currentQuery)
       /\ lastEvent' \notin {"prev", "next", "search"} => currentPage' = currentPage
       /\ lastEvent' \in {"prev", "next"} =>
            (currentQuery' = currentQuery /\ sortState' = sortState)
       /\ lastEvent' # "resolved" =>
            (start' = start /\ end' = end /\ total' = total)
      ]_vars

\* a sort button was clicked at page 1 of the rows found for "a": the call
\* asks for page 1 and "a"
C25_Witness ==
    /\ lastEvent = "sort"
    /\ currentPage = 1
    /\ currentQuery = <<"a">>
    /\ start = rowsPerPage
    /\ Len(pending) = 1
    /\ pending[1].args.page = 1
    /\ pending[1].args.query = <<"a">>

\* C26: toggleMinMax on a cell flips its mode, the one stored on its node
\* or maximized if none is stored: when it returns, the node and the
\* metadata both hold the new mode and the cell is hidden exactly if the new
\* mode is minimized; no other cell changes; and a toggle that follows a
\* toggle of the same cell gives the mode the cell had before the first.
C26_ToggleMinMaxFlips ==
    [][lastEvent' = "toggleMinMax" =>
         \E i \in 1..Len(cells) :
             LET old == IF cells[i].nodeMode = "none" THEN "maximized"
                        ELSE cells[i].nodeMode
                 new == IF old = "maximized" THEN "minimized" ELSE "maximized"
             IN  /\ \A j \in 1..Len(cells) \ {i} : cells'[j] = cells[j]
                 /\ cells'[i].nodeMode = new
                 /\ cells'[i].metaMode = new
                 /\ cells'[i].hidden = (new = "minimized")
                 /\ cells[i].before # "none" => new = cells[i].before
      ]_vars

\* a cell loaded with minimized in its metadata was rendered and then
\* toggled twice: it is minimized again
C26_Witness ==
    /\ lastEvent = "toggleMinMax"
    /\ \E i \in 1..Len(cells) :
           /\ cells[i].before = "maximized"
           /\ cells[i].nodeMode = "minimized"
           /\ cells[i].metaMode = "minimized"
           /\ cells[i].hidden

\* C27: move-cursor-down (up) with the selected cell's cursor at the end of
\* its last line (the start of its first line) and the cell not the last
\* (first) one selects the next (previous) cell and leaves the notebook in
\* edit mode if that cell is not a KBase cell, in command mode if it is;
\* in every other case the selection and the mode stay as they were.
C27_CursorActionsMoveBetweenCells ==
    [][ /\ lastEvent' = "down" =>
             IF /\ cells[selected].cur = <<cells[selected].lastLine, cells[selected].lineLen>>
                /\ selected # Len(cells)
             THEN /\ selected' = selected + 1
                  /\ mode' = IF cells[selected + 1].kb THEN "command" ELSE "edit"
             ELSE selected' = selected /\ mode' = mode
        /\ lastEvent' = "up" =>
             IF cells[selected].cur = <<0, 0>> /\ selected # 1
             THEN /\ selected' = selected - 1
                  /\ mode' = IF cells[selected - 1].kb THEN "command" ELSE "edit"
             ELSE selected' = selected /\ mode' = mode
      ]_vars

\* up from the top of the second cell entered the first, a two-line cell
\* that is not a KBase cell: it is being edited, the cursor at the start of
\* its last line
C27_Witness ==
    /\ lastEvent = "up"
    /\ Len(cells) >= 2
    /\ selected = 1
    /\ mode = "edit"
    /\ ~cells[1].kb
    /\ cells[1].cur = <<1, 0>>
    /\ cells[2].cur = <<0, 0>>

====
